---- MODULE Spec2Model ----
(***************************************************************************)
(* Model of the PNA key-value store: the record codec, the pointer-indexed *)
(* log segment (ptr_log_file.rs), the segment set and engine (kv_store.rs) *)
(* and the simple compactor (compactor.rs).                                *)
(*                                                                         *)
(* A segment file is a sequence of encoded lines.  Offsets are byte        *)
(* offsets: every line has a length, so a cursor can point at the start of *)
(* a line, into the middle of one, or at end of file.                      *)
(***************************************************************************)
EXTENDS Integers, Sequences, FiniteSets, TLC

\* ---------------------------------------------------------------- bounds
Keys == {"a", "b"}
\* two values whose encodings differ in length
Values == {"", "ww"}
\* encoded length of a set record with an empty value, and of an rm record
SetBase == 2
RmLen == 2
\* compaction threshold of KvStore::set (1024 * 1024 bytes in the source), scaled
Threshold == 4
\* capacity of std::io::BufReader (8192 bytes), scaled
BufCap == 3
\* rotations are allowed while next_id < MaxId
MaxId == 3
\* number of client threads of the concurrent specification
NumThreads == 2

Threads == 1..NumThreads

\* the set calls of the callers
Writes == {<<"a", "">>, <<"a", "ww">>, <<"b", "">>}
\* the key the concurrent callers work on, and their set calls
ConcKeys == {"a"}
ConcWrites == {kv \in Writes : kv[1] \in ConcKeys}
FairWrites == {<<"a", "ww">>}

\* the longest key and value of the records the codec is run on
MaxStrLen == 2

\* the longest file the segment-level runs build, in bytes
MaxSegLen == 8

\* the most records of a file handed to replay as found
MaxReplayLen == 3

Min(x, y) == IF x < y THEN x ELSE y

\* ---------------------------------------------------------------- results
None == <<>>
Some(v) == <<v>>
Ok(x) == <<"Ok", x>>
Err(e) == <<"Err", e>>
IsOk(r) == r[1] = "Ok"
IsErr(r) == r[1] = "Err"

\* ---------------------------------------------------------------- codec
LogItem(cmd, key, value) == [cmd |-> cmd, key |-> key, value |-> value]

\* LogEncoder::encode: the JSON line of an item (the trailing "\n" that
\* write_disk adds is part of the line); a line is the triple of its fields
Encode(item) == <<item.cmd, item.key, item.value>>

\* the tail of a line, read from an offset inside it: n bytes up to its "\n"
Partial(n) == <<"#", n>>
IsPartial(line) == Len(line) = 2

\* LogEncoder::decode: the tail of a JSON object is not a JSON object
Decode(line) ==
    IF IsPartial(line) THEN Err("DecodeLog")
    ELSE Ok(LogItem(line[1], line[2], line[3]))

\* byte length of an encoded line
LineLen(line) ==
    IF IsPartial(line) THEN line[2]
    ELSE IF line[1] = "set" THEN SetBase + Len(line[3][1])
    ELSE RmLen

\* ------------------------------------------------ codec, byte by byte
\* serde_json on LogItem: a string is the sequence of its characters
Quote == "\""
Backslash == "\\"
Newline == "\n"

CmdField == <<"c", "m", "d">>
KeyField == <<"k", "e", "y">>
ValueField == <<"v", "a", "l", "u", "e">>
NullWord == <<"n", "u", "l", "l">>
SetWord == <<"s", "e", "t">>
RmWord == <<"r", "m">>

\* a string written between quotes as it stands
JsonStringRaw(s) == <<Quote>> \o s \o <<Quote>>

\* serde_json's string: quote, backslash and control characters escaped
RECURSIVE JsonEscape(_, _)
JsonEscape(s, i) ==
    IF i > Len(s) THEN <<>>
    ELSE (IF s[i] = Quote THEN <<Backslash, Quote>>
          ELSE IF s[i] = Backslash THEN <<Backslash, Backslash>>
          ELSE IF s[i] = Newline THEN <<Backslash, "n">>
          ELSE <<s[i]>>) \o JsonEscape(s, i + 1)

JsonString(s) == <<Quote>> \o JsonEscape(s, 1) \o <<Quote>>

\* serde_json::to_string(&LogItem): the fields in declaration order,
\* None as null
JsonEncode(item) ==
    <<"{">> \o JsonString(CmdField) \o <<":">> \o JsonString(item.cmd)
    \o <<",">> \o JsonString(KeyField) \o <<":">> \o JsonString(item.key)
    \o <<",">> \o JsonString(ValueField) \o <<":">>
    \o (IF item.value = None THEN NullWord ELSE JsonString(item.value[1]))
    \o <<"}">>

ParseFail == [ok |-> FALSE, val |-> <<>>, next |-> 0]
Parsed(val, next) == [ok |-> TRUE, val |-> val, next |-> next]

\* the first position at or after i that holds no whitespace
RECURSIVE SkipWs(_, _)
SkipWs(s, i) ==
    IF i <= Len(s) /\ s[i] \in {" ", Newline} THEN SkipWs(s, i + 1) ELSE i

\* a JSON string whose opening quote is at i - 1
RECURSIVE ParseStr(_, _, _)
ParseStr(s, i, acc) ==
    IF i > Len(s) THEN ParseFail
    ELSE IF s[i] = Quote THEN Parsed(acc, i + 1)
    ELSE IF s[i] = Newline THEN ParseFail
    ELSE IF s[i] = Backslash
    THEN IF i + 1 > Len(s) THEN ParseFail
         ELSE IF s[i + 1] \in {Quote, Backslash}
              THEN ParseStr(s, i + 2, Append(acc, s[i + 1]))
         ELSE IF s[i + 1] = "n" THEN ParseStr(s, i + 2, Append(acc, Newline))
         ELSE ParseFail
    ELSE ParseStr(s, i + 1, Append(acc, s[i]))

\* a value of a LogItem field at i: a string, Some(s), or null, None
ParseValue(s, i) ==
    IF i > Len(s) THEN ParseFail
    ELSE IF s[i] = Quote
    THEN LET p == ParseStr(s, i + 1, <<>>)
         IN  IF p.ok THEN Parsed(Some(p.val), p.next) ELSE ParseFail
    ELSE IF i + 3 <= Len(s) /\ SubSeq(s, i, i + 3) = NullWord THEN Parsed(None, i + 4)
    ELSE ParseFail

\* the members of an object from i on, up to its closing brace: the fields
\* read so far are `fields`, field name -> value
RECURSIVE ParseMembers(_, _, _)
ParseMembers(s, i, fields) ==
    LET a == SkipWs(s, i)
    IN  IF a > Len(s) \/ s[a] # Quote THEN ParseFail
        ELSE LET name == ParseStr(s, a + 1, <<>>)
             IN  IF ~name.ok THEN ParseFail
                 ELSE LET c == SkipWs(s, name.next)
                      IN  IF c > Len(s) \/ s[c] # ":" THEN ParseFail
                          ELSE LET v == ParseValue(s, SkipWs(s, c + 1))
                               IN  IF ~v.ok \/ name.val \in DOMAIN fields THEN ParseFail
                                   ELSE LET e == SkipWs(s, v.next)
                                            fs == [n \in DOMAIN fields \cup {name.val} |->
                                                     IF n = name.val THEN v.val ELSE fields[n]]
                                        IN  IF e > Len(s) THEN ParseFail
                                            ELSE IF s[e] = "}" THEN Parsed(fs, e + 1)
                                            ELSE IF s[e] = "," THEN ParseMembers(s, e + 1, fs)
                                            ELSE ParseFail

NoFields == [n \in {} |-> None]

\* serde_json::from_str::<LogItem>: one object and nothing but whitespace
\* after it; cmd and key are strings, value is a string, null or absent
JsonDecode(s) ==
    LET a == SkipWs(s, 1)
    IN  IF a > Len(s) \/ s[a] # "{" THEN Err("DecodeLog")
        ELSE LET b == SkipWs(s, a + 1)
                 m == IF b <= Len(s) /\ s[b] = "}" THEN Parsed(NoFields, b + 1)
                      ELSE ParseMembers(s, a + 1, NoFields)
             IN  IF ~m.ok THEN Err("DecodeLog")
                 ELSE IF SkipWs(s, m.next) <= Len(s) THEN Err("DecodeLog")
                 ELSE IF CmdField \notin DOMAIN m.val \/ KeyField \notin DOMAIN m.val
                      THEN Err("DecodeLog")
                 ELSE IF m.val[CmdField] = None \/ m.val[KeyField] = None
                      THEN Err("DecodeLog")
                 ELSE Ok(LogItem(m.val[CmdField][1], m.val[KeyField][1],
                                 IF ValueField \in DOMAIN m.val
                                 THEN m.val[ValueField] ELSE None))

\* ---------------------------------------------------------------- files
RECURSIVE LenFrom(_, _)
LenFrom(f, i) == IF i > Len(f) THEN 0 ELSE LineLen(f[i]) + LenFrom(f, i + 1)

\* metadata().len() of the file
FileLen(f) == LenFrom(f, 1)

EOF == <<>>

\* the line that starts off bytes after the start of line i
RECURSIVE ReadFrom(_, _, _)
ReadFrom(f, i, off) ==
    IF i > Len(f) THEN EOF
    ELSE IF off = 0 THEN f[i]
    ELSE IF off < LineLen(f[i]) THEN Partial(LineLen(f[i]) - off)
    ELSE ReadFrom(f, i + 1, off - LineLen(f[i]))

\* BufRead::read_line at byte offset off
ReadLine(f, off) == ReadFrom(f, 1, off)

\* position of the underlying file after a BufReader positioned at off has
\* read one line: the reader fills its buffer BufCap bytes at a time
PosAfterRead(f, off) ==
    LET line == ReadLine(f, off)
    IN  IF line = EOF THEN off
        ELSE LET n == (LineLen(line) + BufCap - 1) \div BufCap
             IN  Min(off + n * BufCap, FileLen(f))

\* ---------------------------------------------------------------- segment
Exist(o) == [tag |-> "Exist", off |-> o]
Removed(o) == [tag |-> "Removed", off |-> o]

EmptyIndex == [k \in {} |-> Exist(0)]

IndexInsert(index, k, e) ==
    [x \in DOMAIN index \cup {k} |-> IF x = k THEN e ELSE index[x]]

\* build_index: replay of the file from offset 0
RECURSIVE Replay(_, _, _, _)
Replay(f, i, cursor, index) ==
    IF i > Len(f) THEN Ok(index)
    ELSE LET d == Decode(f[i])
         IN  IF IsErr(d) THEN d
             ELSE IF d[2].cmd = "set"
                  THEN Replay(f, i + 1, cursor + LineLen(f[i]),
                              IndexInsert(index, d[2].key, Exist(cursor)))
             ELSE IF d[2].cmd = "rm"
                  THEN Replay(f, i + 1, cursor + LineLen(f[i]),
                              IndexInsert(index, d[2].key, Removed(cursor)))
             ELSE Err("UnknownCmd")

\* a replay that stops after the first record of the file
BuildIndexFirstRecord(f) == Replay(SubSeq(f, 1, Min(1, Len(f))), 1, 0, EmptyIndex)

BuildIndex(f) == Replay(f, 1, 0, EmptyIndex)

\* PtrLogFileInner::new on a path of the directory `files`: the handle is
\* opened read+append, its position is 0
NewLogFile(files, path) ==
    IF path \notin DOMAIN files THEN Err("InvalidPath")
    ELSE LET b == BuildIndex(files[path])
         IN  IF IsErr(b) THEN b
             ELSE Ok([path |-> path, index |-> b[2], pos |-> 0])

\* stream_position() of the segment's handle
StreamPosition(seg) == seg.pos

\* write_disk on a handle opened with append(true): the line goes to the end
\* of the file and the position ends there
WriteDisk(f, item) == Append(f, Encode(item))

\* PtrLogFileInner::set: [seg, file]
SegSet(seg, f, k, v) ==
    LET new_cursor == StreamPosition(seg)
        f2 == WriteDisk(f, LogItem("set", k, Some(v)))
    IN  [seg |-> [seg EXCEPT !.index = IndexInsert(seg.index, k, Exist(new_cursor)),
                             !.pos = FileLen(f2)],
         file |-> f2, res |-> Ok(None)]

\* PtrLogFile::contains_key
ContainsKey(seg, k) == k \in DOMAIN seg.index

\* a remove that appends its tombstone whatever the index holds
SegRemoveUnguarded(seg, f, k) ==
    LET f2 == WriteDisk(f, LogItem("rm", k, None))
    IN  [seg |-> [seg EXCEPT !.index = IndexInsert(seg.index, k, Removed(StreamPosition(seg))),
                             !.pos = FileLen(f2)],
         file |-> f2, res |-> Ok(None)]

\* PtrLogFileInner::remove
SegRemove(seg, f, k) ==
    IF ContainsKey(seg, k) /\ seg.index[k].tag = "Exist"
    THEN LET new_cursor == StreamPosition(seg)
             f2 == WriteDisk(f, LogItem("rm", k, None))
         IN  [seg |-> [seg EXCEPT !.index = IndexInsert(seg.index, k, Removed(new_cursor)),
                                  !.pos = FileLen(f2)],
              file |-> f2, res |-> Ok(None)]
    ELSE [seg |-> seg, file |-> f, res |-> Err("RemoveNotExistKey")]

\* PtrLogFileInner::get: [seg, res]
SegGet(seg, f, k) ==
    IF ~ContainsKey(seg, k) \/ seg.index[k].tag = "Removed"
    THEN [seg |-> seg, res |-> Ok(None)]
    ELSE LET cursor == seg.index[k].off
             line == ReadLine(f, cursor)
             seg2 == [seg EXCEPT !.pos = PosAfterRead(f, cursor)]
         IN  IF line = EOF THEN [seg |-> seg2, res |-> Err("Unexpected")]
             ELSE LET d == Decode(line)
                  IN  IF IsErr(d) THEN [seg |-> seg2, res |-> d]
                      ELSE IF d[2].value = None
                           THEN [seg |-> seg2, res |-> Err("Unexpected")]
                      ELSE [seg |-> seg2, res |-> Ok(d[2].value)]

\* the orders in which a HashMap can yield the keys of an index
IterOrders(index) ==
    LET S == DOMAIN index
    IN  {s \in [1..Cardinality(S) -> S] : \A x \in S : \E i \in DOMAIN s : s[i] = x}

\* a scan that reads every key's line at offset 0
SegScanMisread(seg, f, order) ==
    LET lines == [i \in DOMAIN order |-> ReadLine(f, 0)]
    IN  [seg |-> seg, res |-> Ok(lines)]

\* PtrLogFileInner::scan, the index iterated in `order`: [seg, res]
SegScan(seg, f, order) ==
    LET offs == [i \in DOMAIN order |-> seg.index[order[i]].off]
        lines == [i \in DOMAIN order |-> ReadLine(f, offs[i])]
        seg2 == IF order = <<>> THEN seg
                ELSE [seg EXCEPT !.pos = PosAfterRead(f, offs[Len(order)])]
    IN  IF \E i \in DOMAIN order : lines[i] = EOF
        THEN [seg |-> seg, res |-> Err("Unexpected")]
        ELSE [seg |-> seg2, res |-> Ok(lines)]

\* PtrLogFileInner::len
SegLen(f) == FileLen(f)

\* ---------------------------------------------------------------- state
VARIABLES
    files,        \* the directory: segment id N -> lines of the file data_N
    cfiles,       \* segment id N -> lines of the transient file data_N.compact
    store,        \* "open", or how the last KvStore::open failed
    mutable,      \* LogFiles.mutable
    immutables,   \* LogFiles.immutables
    next_id,      \* LogFiles.next_id
    setReaders,   \* threads holding the RwLock<LogFiles> in shared mode
    setWriter,    \* the thread holding it in exclusive mode, or 0
    setWaiting,   \* threads blocked in log_files.write()
    segWriter,    \* segment path -> thread holding that segment's lock, or 0
    pc,           \* thread -> position in its operation
    local,        \* thread -> the operation's arguments and local variables
    last,         \* key -> the last write the engine accepted for it
    lastOp,       \* the operation that produced this state
    pure          \* TRUE while the mutable has seen set/remove only since it
                  \* was created on an empty file

vars == <<files, cfiles, store, mutable, immutables, next_id, setReaders,
          setWriter, setWaiting, segWriter, pc, local, last, lastOp, pure>>

dataVars == <<files, cfiles, store, mutable, immutables, next_id>>
lockVars == <<setReaders, setWriter, setWaiting, segWriter>>
threadVars == <<pc, local>>

\* the LogFiles value together with the directory it lives in
World == [files |-> files, cfiles |-> cfiles, mutable |-> mutable,
          immutables |-> immutables, next_id |-> next_id]

Install(w) ==
    /\ files' = w.files
    /\ cfiles' = w.cfiles
    /\ mutable' = w.mutable
    /\ immutables' = w.immutables
    /\ next_id' = w.next_id

NoFiles == [p \in {} |-> <<>>]

PutFile(fs, path, f) == [p \in DOMAIN fs \cup {path} |-> IF p = path THEN f ELSE fs[p]]
DelFile(fs, path) == [p \in DOMAIN fs \ {path} |-> fs[p]]

\* ---------------------------------------------------------------- engine
\* a next_mut_path that hands out the identifier before next_id
NextMutPathReuse(n) == [path |-> n - 1, next_id |-> n + 1]

\* LogFiles::next_mut_path: [path, next_id]
NextMutPath(n) == [path |-> n, next_id |-> n + 1]

\* the ids sorted the way strings sort: "10" before "9"
RECURSIVE SortedAsText(_)
SortedAsText(S) ==
    LET Lead(x) == IF x >= 10 THEN x \div 10 ELSE x
    IN  IF S = {} THEN <<>>
        ELSE LET m == CHOOSE x \in S : \A y \in S :
                          Lead(x) < Lead(y) \/ (Lead(x) = Lead(y) /\ x <= y)
             IN  <<m>> \o SortedAsText(S \ {m})

\* get_file_paths: the ids of the directory's files in ascending order
RECURSIVE SortedIds(_)
SortedIds(S) ==
    IF S = {} THEN <<>>
    ELSE LET m == CHOOSE x \in S : \A y \in S : x <= y
         IN  <<m>> \o SortedIds(S \ {m})

\* KvStore::open: Ok(world), Err, or "panic" when a file name does not
\* parse as data_<digits> (check_and_get_file_id)
Open(fs, cfs) ==
    IF DOMAIN cfs # {} THEN <<"Panic", "check_and_get_file_id">>
    ELSE IF DOMAIN fs = {}
    THEN LET fs2 == PutFile(fs, 0, <<>>)
             m == NewLogFile(fs2, 0)
         IN  IF IsErr(m) THEN Err("Open")
             ELSE Ok([files |-> fs2, cfiles |-> cfs, mutable |-> m[2],
                      immutables |-> <<>>, next_id |-> 1])
    ELSE LET ids == SortedIds(DOMAIN fs)
             n == Len(ids)
             m == NewLogFile(fs, ids[n])
             ims == [i \in 1..(n - 1) |-> NewLogFile(fs, ids[i])]
         IN  IF IsErr(m) \/ \E i \in 1..(n - 1) : IsErr(ims[i]) THEN Err("Open")
             ELSE Ok([files |-> fs, cfiles |-> cfs, mutable |-> m[2],
                      immutables |-> [i \in 1..(n - 1) |-> ims[i][2]],
                      next_id |-> ids[n] + 1])

\* ------------------------------------------------ directory entry names
\* a file name is the sequence of its characters
DataWord == <<"d", "a", "t", "a">>
CompactSuffix == <<".", "c", "o", "m", "p", "a", "c", "t">>
DecimalDigits == <<"0", "1", "2", "3", "4", "5", "6", "7", "8", "9">>

\* f_name.split('_')
RECURSIVE SplitFrom(_, _, _, _)
SplitFrom(s, i, cur, acc) ==
    IF i > Len(s) THEN Append(acc, cur)
    ELSE IF s[i] = "_" THEN SplitFrom(s, i + 1, <<>>, Append(acc, cur))
    ELSE SplitFrom(s, i + 1, Append(cur, s[i]), acc)

Split(s) == SplitFrom(s, 1, <<>>, <<>>)

\* the value of a decimal digit, -1 for any other character
DigitOf(c) ==
    IF \E i \in DOMAIN DecimalDigits : DecimalDigits[i] = c
    THEN (CHOOSE i \in DOMAIN DecimalDigits : DecimalDigits[i] = c) - 1
    ELSE -1

RECURSIVE ParseDigits(_, _, _)
ParseDigits(d, i, acc) ==
    IF i > Len(d) THEN Ok(acc)
    ELSE IF DigitOf(d[i]) < 0 THEN Err("InvalidDigit")
    ELSE ParseDigits(d, i + 1, acc * 10 + DigitOf(d[i]))

\* str::parse::<usize>: an optional '+' sign, then one decimal digit or more
ParseUsize(d) ==
    IF d = <<>> THEN Err("Empty")
    ELSE IF d[1] = "+"
    THEN IF Len(d) = 1 THEN Err("InvalidDigit") ELSE ParseDigits(d, 2, 0)
    ELSE ParseDigits(d, 1, 0)

Panic(what) == <<"Panic", what>>
IsPanic(r) == r[1] = "Panic"

\* check_and_get_file_id: Ok(id), or the panic of an assert_eq! or of the
\* unwrap of the parse
CheckAndGetFileId(f_name) ==
    LET segs == Split(f_name)
    IN  IF Len(segs) # 2 THEN Panic("assert_eq")
        ELSE IF segs[1] # DataWord THEN Panic("assert_eq")
        ELSE LET id == ParseUsize(segs[2])
             IN  IF IsErr(id) THEN Panic("unwrap") ELSE id

\* a directory path: whether it exists, and its non-directory entries,
\* file name -> lines
MissingDir == [exists |-> FALSE, entries |-> NoFiles]
Dir(entries) == [exists |-> TRUE, entries |-> entries]

\* get_file_paths: None for a path that does not exist, a panic out of
\* check_and_get_file_id, or Some of the (id, file name) pairs sorted by id
GetFilePaths(dir) ==
    IF ~dir.exists THEN [panic |-> FALSE, res |-> None]
    ELSE LET names == DOMAIN dir.entries
         IN  IF \E n \in names : IsPanic(CheckAndGetFileId(n))
             THEN [panic |-> TRUE, res |-> None]
             ELSE LET IdOf(n) == CheckAndGetFileId(n)[2]
                      ids == SortedIds({IdOf(n) : n \in names})
                  IN  [panic |-> FALSE,
                       res |-> Some([i \in DOMAIN ids |->
                                  <<ids[i], CHOOSE n \in names : IdOf(n) = ids[i]>>])]

\* KvStore::open(path): lines 99-143 on what get_file_paths returned; the
\* world it builds names every file by its id
KvOpen(dir) ==
    LET g == GetFilePaths(dir)
    IN  IF g.panic THEN Panic("check_and_get_file_id")
        ELSE IF g.res = None THEN Panic("unwrap")
        ELSE LET id_path_pairs == g.res[1]
                 NameOf(id) ==
                     id_path_pairs[CHOOSE i \in DOMAIN id_path_pairs :
                                       id_path_pairs[i][1] = id][2]
                 fs == [id \in {id_path_pairs[i][1] : i \in DOMAIN id_path_pairs} |->
                          dir.entries[NameOf(id)]]
             IN  Open(fs, NoFiles)

\* the order in which KvStore::get visits the immutables: immutables.iter()
SearchOrder(n) == [i \in 1..n |-> i]

\* a find_target that passes over the segments whose entry of k is Removed
FindTargetLive(mut, ims, k) ==
    IF ContainsKey(mut, k) /\ mut.index[k].tag = "Exist" THEN 0
    ELSE LET hits == {j \in DOMAIN ims :
                         ContainsKey(ims[j], k) /\ ims[j].index[k].tag = "Exist"}
         IN  IF hits = {} THEN -1
             ELSE CHOOSE j \in hits : \A h \in hits : j <= h

\* find_target of KvStore::get: 0 for the mutable, i for immutables[i], -1 for none
FindTarget(mut, ims, k) ==
    IF ContainsKey(mut, k) THEN 0
    ELSE LET ord == SearchOrder(Len(ims))
             hits == {j \in DOMAIN ord : ContainsKey(ims[ord[j]], k)}
         IN  IF hits = {} THEN -1
             ELSE ord[CHOOSE j \in hits : \A h \in hits : j <= h]

\* A segment as an element of LogFiles.immutables.  Only set and remove read
\* the position of a handle (stream_position), and the engine applies them to
\* the mutable alone, so the position of an immutable's handle is dead state
\* and is not tracked.
Immutable(seg) == [seg EXCEPT !.pos = 0]

\* lines 167-180 of KvStore::get, t the target find_target chose: [w, res]
KvGetAt(w, t, k) ==
    IF t = -1 THEN [w |-> w, res |-> Ok(None)]
    ELSE IF t = 0
    THEN LET g == SegGet(w.mutable, w.files[w.mutable.path], k)
         IN  [w |-> [w EXCEPT !.mutable = g.seg], res |-> g.res]
    ELSE LET g == SegGet(w.immutables[t], w.files[w.immutables[t].path], k)
         IN  [w |-> [w EXCEPT !.immutables[t] = Immutable(g.seg)], res |-> g.res]

\* KvStore::get: [w, res]
KvGet(w, k) == KvGetAt(w, FindTarget(w.mutable, w.immutables, k), k)

\* the answer KvStore::get(k) gives in world w
GetAnswer(w, k) == KvGet(w, k).res

\* the append of KvStore::set, lines 188-197: [w, len]
KvSetAppend(w, k, v) ==
    LET r == SegSet(w.mutable, w.files[w.mutable.path], k, v)
    IN  [w |-> [w EXCEPT !.mutable = r.seg, !.files[w.mutable.path] = r.file],
         len |-> SegLen(r.file)]

\* a test that also rotates a mutable exactly at the threshold
NeedsCompactAtThreshold(len) == len >= Threshold

\* the test of KvStore::set, line 200
NeedsCompact(len) == len > Threshold

\* a remove that writes its tombstone to the mutable whatever its index holds
KvRemoveUnguarded(w, k) ==
    LET r == SegRemoveUnguarded(w.mutable, w.files[w.mutable.path], k)
    IN  [w |-> [w EXCEPT !.mutable = r.seg, !.files[w.mutable.path] = r.file],
         res |-> r.res]

\* KvStore::remove: [w, res]
KvRemove(w, k) ==
    LET r == SegRemove(w.mutable, w.files[w.mutable.path], k)
    IN  [w |-> [w EXCEPT !.mutable = r.seg, !.files[w.mutable.path] = r.file],
         res |-> r.res]

\* ---------------------------------------------------------------- compactor
LastImmutable(w) == w.immutables[Len(w.immutables)]

\* a phase A that drops the old mutable instead of pushing it
PhaseADrop(w) ==
    LET np == NextMutPath(w.next_id)
        fs2 == PutFile(w.files, np.path, <<>>)
        new_mut_file == NewLogFile(fs2, np.path)
    IN  [w EXCEPT !.next_id = np.next_id,
                  !.files = fs2,
                  !.mutable = new_mut_file[2]]

\* a phase A that leaves next_id as it was
PhaseAStale(w) ==
    LET np == NextMutPath(w.next_id)
        fs2 == PutFile(w.files, np.path, <<>>)
        new_mut_file == NewLogFile(fs2, np.path)
    IN  [w EXCEPT !.files = fs2,
                  !.mutable = new_mut_file[2],
                  !.immutables = Append(w.immutables, Immutable(w.mutable))]

\* phase A of SimpleCompactor::compact, lines 56-68
PhaseA(w) ==
    LET np == NextMutPath(w.next_id)
        fs2 == PutFile(w.files, np.path, <<>>)
        new_mut_file == NewLogFile(fs2, np.path)
    IN  [w EXCEPT !.next_id = np.next_id,
                  !.files = fs2,
                  !.mutable = new_mut_file[2],
                  !.immutables = Append(w.immutables, Immutable(w.mutable))]

\* phase B, lines 71-84: scan of immutables.last(): [w, path, res]
PhaseBScan(w, order) ==
    LET n == Len(w.immutables)
        latest == w.immutables[n]
        s == SegScan(latest, w.files[latest.path], order)
    IN  [w |-> [w EXCEPT !.immutables[n] = Immutable(s.seg)], path |-> latest.path, res |-> s.res]

\* a compacted file written over the segment file itself
PhaseBWriteInPlace(w, path, cmds) == [w EXCEPT !.files = PutFile(w.files, path, cmds)]

\* lines 94-121: File::create of <path>.compact and the write of every line
PhaseBWrite(w, path, cmds) == [w EXCEPT !.cfiles = PutFile(w.cfiles, path, cmds)]

\* phase C, lines 126-149; `path` is the path recorded in phase B: [w, res]
PhaseC(w, path) ==
    LET n == Len(w.immutables)
        old_immut_path == w.immutables[n].path
        popped == [w EXCEPT !.immutables = SubSeq(w.immutables, 1, n - 1)]
    IN  IF old_immut_path \notin DOMAIN w.files
        THEN [w |-> popped, res |-> Err("ProcessOsFile")]
        ELSE LET removed == [popped EXCEPT !.files = DelFile(w.files, old_immut_path)]
             IN  IF path \notin DOMAIN w.cfiles
                 THEN [w |-> removed, res |-> Err("ProcessOsFile")]
                 ELSE LET renamed == [removed EXCEPT
                                !.files = PutFile(removed.files, old_immut_path, w.cfiles[path]),
                                !.cfiles = DelFile(w.cfiles, path)]
                          new_immut_file == NewLogFile(renamed.files, old_immut_path)
                      IN  IF IsErr(new_immut_file)
                          THEN [w |-> renamed, res |-> Err("ProcessLogFile")]
                          ELSE [w |-> [renamed EXCEPT !.immutables =
                                          Append(renamed.immutables, new_immut_file[2])],
                                res |-> Ok(None)]

\* SimpleCompactor::compact run without interleaving: [w, res]
Compact(w, order) ==
    LET a == PhaseA(w)
        b == PhaseBScan(a, order)
    IN  IF IsErr(b.res) THEN [w |-> b.w, res |-> Err("ProcessLogFile")]
        ELSE PhaseC(PhaseBWrite(b.w, b.path, b.res[2]), b.path)

\* ---------------------------------------------------------------- history
NoWrite == <<"none">>
Unknown == NoWrite
WroteSet(v) == <<"set", v>>
WroteRm == <<"rm">>

\* lastOp after a compact() that returned Ok: "compact" when the segment it
\* rewrote was built by set and remove alone
Compacted == {"compact", "compact_dirty"}

\* a thread's operation, its arguments and its local variables; `rotated` is
\* the path of the segment the thread's phase A pushed onto immutables
Local(op, key, value) ==
    [op |-> op, key |-> key, value |-> value, target |-> -1, path |-> -1, cmds |-> <<>>,
     rotated |-> -1]

\* the locals of a thread that runs no operation
Idle == Local("idle", "", "")

\* ---------------------------------------------------------------- Init
InitWorld(w) ==
    /\ files = w.files
    /\ cfiles = w.cfiles
    /\ mutable = w.mutable
    /\ immutables = w.immutables
    /\ next_id = w.next_id

\* KvStore::open on an empty directory
Init ==
    /\ InitWorld(Open(NoFiles, NoFiles)[2])
    /\ store = "open"
    /\ setReaders = {}
    /\ setWriter = 0
    /\ setWaiting = {}
    /\ segWriter = [p \in 0..MaxId |-> 0]
    /\ pc = [t \in Threads |-> "idle"]
    /\ local = [t \in Threads |-> Idle]
    /\ last = [k \in Keys |-> NoWrite]
    /\ lastOp = "open"
    /\ pure = TRUE

\* ------------------------------------------- one caller: whole operations
\* KvStore::set whose append leaves the mutable at or below the threshold
Set(k, v) ==
    LET a == KvSetAppend(World, k, v)
    IN  /\ store = "open"
        /\ ~NeedsCompact(a.len)
        /\ Install(a.w)
        /\ last' = [last EXCEPT ![k] = WroteSet(v)]
        /\ lastOp' = "other"
        /\ UNCHANGED <<store, lockVars, threadVars, pure>>

\* KvStore::set whose append takes the mutable over the threshold: the
\* append, then SimpleCompactor::compact
SetCompact(k, v) ==
    LET a == KvSetAppend(World, k, v)
    IN  /\ store = "open"
        /\ NeedsCompact(a.len)
        /\ next_id < MaxId
        /\ \E order \in IterOrders(a.w.mutable.index) :
              LET c == Compact(a.w, order)
              IN  /\ Install(c.w)
                  /\ last' = [last EXCEPT ![k] = IF IsOk(c.res) THEN WroteSet(v) ELSE Unknown]
                  /\ lastOp' = IF IsErr(c.res) THEN "compact_err"
                               ELSE IF pure THEN "compact" ELSE "compact_dirty"
        /\ pure' = TRUE
        /\ UNCHANGED <<store, lockVars, threadVars>>

\* KvStore::get
Get(k) ==
    LET g == KvGet(World, k)
        t == FindTarget(mutable, immutables, k)
    IN  /\ store = "open"
        /\ Install(g.w)
        /\ lastOp' = "other"
        /\ pure' = (pure /\ ~(t = 0 /\ mutable.index[k].tag = "Exist"))
        /\ UNCHANGED <<store, lockVars, threadVars, last>>

\* KvStore::remove
Remove(k) ==
    LET r == KvRemove(World, k)
    IN  /\ store = "open"
        /\ Install(r.w)
        /\ last' = [last EXCEPT ![k] = IF IsOk(r.res) \/ last[k] = WroteRm
                                       THEN WroteRm ELSE Unknown]
        /\ lastOp' = "other"
        /\ UNCHANGED <<store, lockVars, threadVars, pure>>

\* drop the store, then KvStore::open on the same directory
Reopen ==
    LET o == Open(files, cfiles)
    IN  /\ store = "open"
        /\ IsOk(o)
        /\ Install(o[2])
        /\ lastOp' = "reopen"
        /\ pure' = (o[2].files[o[2].mutable.path] = <<>>)
        /\ UNCHANGED <<store, lockVars, threadVars, last>>

\* the same, when a segment does not replay or a file name does not parse
ReopenFails ==
    LET o == Open(files, cfiles)
    IN  /\ store = "open"
        /\ ~IsOk(o)
        /\ store' = o[1]
        /\ lastOp' = "reopen_err"
        /\ UNCHANGED <<files, cfiles, mutable, immutables, next_id,
                       lockVars, threadVars, last, pure>>

\* one caller of an open store
NextEngine ==
    \/ \E kv \in Writes : Set(kv[1], kv[2])
    \/ \E kv \in Writes : SetCompact(kv[1], kv[2])
    \/ \E k \in Keys : Get(k)
    \/ \E k \in Keys : Remove(k)

SpecEngine == Init /\ [][NextEngine]_vars

\* one caller that may also close the store and open it again
Next ==
    \/ \E kv \in Writes : Set(kv[1], kv[2])
    \/ \E kv \in Writes : SetCompact(kv[1], kv[2])
    \/ \E k \in Keys : Get(k)
    \/ \E k \in Keys : Remove(k)
    \/ Reopen
    \/ ReopenFails

Spec == Init /\ [][Next]_vars

\* ------------------------------------------- several callers: one step
\* per lock acquisition and per critical section
\* RwLock<LogFiles>: read() is refused while a writer holds or waits
ReadLockable == setWriter = 0 /\ setWaiting = {}

\* RwLock<LogFiles>: write() waits for the writer and for every reader
WriteLockable(t) == setWriter = 0 /\ setReaders = {} /\ t \in setWaiting

\* a read guard that is never dropped
KeepRead(readers, t) == readers

\* dropping the read guard of the set
ReleaseRead(readers, t) == readers \ {t}

\* threads whose operation may still rotate the mutable
Rotating == {"s_lock", "s_seg", "s_write", "a_lock", "a_held"}

Return(t) ==
    /\ pc' = [pc EXCEPT ![t] = "idle"]
    /\ local' = [local EXCEPT ![t] = Idle]

Goto(t, where) == pc' = [pc EXCEPT ![t] = where]

\* the segments contains_key visits before find_target settles on target
Visited(target) ==
    {mutable.path} \cup
    {immutables[i].path : i \in {j \in DOMAIN immutables : target = -1 \/ j <= target}}

TargetPath(target) == IF target = 0 THEN mutable.path ELSE immutables[target].path

CallGet(t, k) ==
    /\ store = "open" /\ pc[t] = "idle"
    /\ pc' = [pc EXCEPT ![t] = "g_lock"]
    /\ local' = [local EXCEPT ![t] = Local("get", k, "")]
    /\ UNCHANGED <<dataVars, lockVars, last, lastOp, pure>>

CallSet(t, k, v) ==
    /\ store = "open" /\ pc[t] = "idle"
    /\ next_id + Cardinality({u \in Threads : pc[u] \in Rotating}) < MaxId
    /\ pc' = [pc EXCEPT ![t] = "s_lock"]
    /\ local' = [local EXCEPT ![t] = Local("set", k, v)]
    /\ UNCHANGED <<dataVars, lockVars, last, lastOp, pure>>

CallRemove(t, k) ==
    /\ store = "open" /\ pc[t] = "idle"
    /\ pc' = [pc EXCEPT ![t] = "r_lock"]
    /\ local' = [local EXCEPT ![t] = Local("remove", k, "")]
    /\ UNCHANGED <<dataVars, lockVars, last, lastOp, pure>>

\* self.log_files.read() of get, set, remove and of phase B
LockRead(t, from, to) ==
    /\ pc[t] = from
    /\ ReadLockable
    /\ setReaders' = setReaders \cup {t}
    /\ Goto(t, to)
    /\ UNCHANGED <<dataVars, setWriter, setWaiting, segWriter, local, last, lastOp, pure>>

\* self.log_files.write() of phases A and C
LockWrite(t, from, to) ==
    /\ pc[t] = from
    /\ WriteLockable(t)
    /\ setWriter' = t
    /\ setWaiting' = setWaiting \ {t}
    /\ Goto(t, to)
    /\ UNCHANGED <<dataVars, setReaders, segWriter, local, last, lastOp, pure>>

\* t.write() / mutable.write() on the segment at `path`
LockSeg(t, from, to, path) ==
    /\ pc[t] = from
    /\ segWriter[path] = 0
    /\ segWriter' = [segWriter EXCEPT ![path] = t]
    /\ Goto(t, to)
    /\ UNCHANGED <<dataVars, setReaders, setWriter, setWaiting, last, lastOp, pure>>

GetLock(t) == LockRead(t, "g_lock", "g_find")

\* find_target finds no segment that contains the key
GetFindNone(t) ==
    LET target == FindTarget(mutable, immutables, local[t].key)
    IN  /\ pc[t] = "g_find"
        /\ target = -1
        /\ \A p \in Visited(target) : segWriter[p] = 0
        /\ setReaders' = ReleaseRead(setReaders, t)
        /\ Return(t)
        /\ UNCHANGED <<dataVars, setWriter, setWaiting, segWriter, last, lastOp, pure>>

GetFind(t) ==
    LET target == FindTarget(mutable, immutables, local[t].key)
    IN  /\ pc[t] = "g_find"
        /\ target # -1
        /\ \A p \in Visited(target) : segWriter[p] = 0
        /\ Goto(t, "g_seg")
        /\ local' = [local EXCEPT ![t].target = target]
        /\ UNCHANGED <<dataVars, lockVars, last, lastOp, pure>>

GetSegLock(t) ==
    /\ pc[t] = "g_seg"
    /\ LockSeg(t, "g_seg", "g_read", TargetPath(local[t].target))
    /\ UNCHANGED local

GetRead(t) ==
    /\ pc[t] = "g_read"
    /\ \E w \in {World} :
          \E g \in {KvGetAt(w, local[t].target, local[t].key)} : Install(g.w)
    /\ segWriter' = [segWriter EXCEPT ![TargetPath(local[t].target)] = 0]
    /\ setReaders' = ReleaseRead(setReaders, t)
    /\ Return(t)
    /\ pure' = (pure /\ ~(local[t].target = 0
                          /\ mutable.index[local[t].key].tag = "Exist"))
    /\ UNCHANGED <<store, setWriter, setWaiting, last, lastOp>>

SetLock(t) == LockRead(t, "s_lock", "s_seg")

SetSegLock(t) ==
    /\ pc[t] = "s_seg"
    /\ LockSeg(t, "s_seg", "s_write", mutable.path)
    /\ UNCHANGED local

\* the append, and the return of a set that does not compact
SetWrite(t) ==
    LET a == KvSetAppend(World, local[t].key, local[t].value)
    IN  /\ pc[t] = "s_write"
        /\ ~NeedsCompact(a.len)
        /\ Install(a.w)
        /\ last' = [last EXCEPT ![local[t].key] = WroteSet(local[t].value)]
        /\ segWriter' = [segWriter EXCEPT ![mutable.path] = 0]
        /\ setReaders' = ReleaseRead(setReaders, t)
        /\ Return(t)
        /\ UNCHANGED <<store, setWriter, setWaiting, lastOp, pure>>

\* the append of a set that goes on to compact()
SetWriteCompact(t) ==
    LET a == KvSetAppend(World, local[t].key, local[t].value)
    IN  /\ pc[t] = "s_write"
        /\ NeedsCompact(a.len)
        /\ Install(a.w)
        /\ last' = [last EXCEPT ![local[t].key] = WroteSet(local[t].value)]
        /\ segWriter' = [segWriter EXCEPT ![mutable.path] = 0]
        /\ setReaders' = ReleaseRead(setReaders, t)
        /\ setWaiting' = setWaiting \cup {t}
        /\ Goto(t, "a_lock")
        /\ UNCHANGED <<store, setWriter, local, lastOp, pure>>

RemoveLock(t) == LockRead(t, "r_lock", "r_seg")

RemoveSegLock(t) ==
    /\ pc[t] = "r_seg"
    /\ LockSeg(t, "r_seg", "r_write", mutable.path)
    /\ UNCHANGED local

RemoveWrite(t) ==
    LET r == KvRemove(World, local[t].key)
    IN  /\ pc[t] = "r_write"
        /\ Install(r.w)
        /\ last' = [last EXCEPT ![local[t].key] =
                        IF IsOk(r.res) \/ last[local[t].key] = WroteRm
                        THEN WroteRm ELSE Unknown]
        /\ segWriter' = [segWriter EXCEPT ![mutable.path] = 0]
        /\ setReaders' = ReleaseRead(setReaders, t)
        /\ Return(t)
        /\ UNCHANGED <<store, setWriter, setWaiting, lastOp, pure>>

CompactALock(t) == LockWrite(t, "a_lock", "a_held")

CompactA(t) ==
    /\ pc[t] = "a_held"
    /\ Install(PhaseA(World))
    /\ setWriter' = 0
    /\ Goto(t, "b_lock")
    /\ local' = [local EXCEPT ![t].rotated = mutable.path]
    /\ pure' = TRUE
    /\ UNCHANGED <<store, setReaders, setWaiting, segWriter, last, lastOp>>

CompactBLock(t) == LockRead(t, "b_lock", "b_seg")

CompactBSegLock(t) ==
    /\ pc[t] = "b_seg"
    /\ LockSeg(t, "b_seg", "b_scan", LastImmutable(World).path)
    /\ local' = [local EXCEPT ![t].path = LastImmutable(World).path]

CompactBScan(t) ==
    /\ pc[t] = "b_scan"
    /\ \E w \in {World}, order \in IterOrders(LastImmutable(World).index) :
          \E b \in {PhaseBScan(w, order)} :
              /\ Install(b.w)
              /\ IF IsOk(b.res)
                 THEN /\ Goto(t, "b_write")
                      /\ local' = [local EXCEPT ![t].cmds = b.res[2]]
                      /\ UNCHANGED last
                 ELSE /\ Return(t)
                      /\ last' = [last EXCEPT ![local[t].key] = Unknown]
    /\ segWriter' = [segWriter EXCEPT ![local[t].path] = 0]
    /\ setReaders' = ReleaseRead(setReaders, t)
    /\ UNCHANGED <<store, setWriter, setWaiting, lastOp, pure>>

CompactBWrite(t) ==
    /\ pc[t] = "b_write"
    /\ Install(PhaseBWrite(World, local[t].path, local[t].cmds))
    /\ setWaiting' = setWaiting \cup {t}
    /\ Goto(t, "c_lock")
    /\ UNCHANGED <<store, setReaders, setWriter, segWriter, local, last, lastOp, pure>>

CompactCLock(t) == LockWrite(t, "c_lock", "c_held")

CompactC(t) ==
    /\ pc[t] = "c_held"
    /\ \E c \in {PhaseC(World, local[t].path)} :
          /\ Install(c.w)
          /\ lastOp' = IF IsOk(c.res) THEN "compacted" ELSE "compact_err"
          /\ last' = IF IsOk(c.res) THEN last
                     ELSE [last EXCEPT ![local[t].key] = Unknown]
    /\ setWriter' = 0
    /\ Return(t)
    /\ UNCHANGED <<store, setReaders, setWaiting, segWriter, pure>>

\* the steps of a thread inside an operation
Proceed(t) ==
    \/ GetLock(t) \/ GetFindNone(t) \/ GetFind(t) \/ GetSegLock(t) \/ GetRead(t)
    \/ SetLock(t) \/ SetSegLock(t) \/ SetWrite(t) \/ SetWriteCompact(t)
    \/ RemoveLock(t) \/ RemoveSegLock(t) \/ RemoveWrite(t)
    \/ CompactALock(t) \/ CompactA(t)
    \/ CompactBLock(t) \/ CompactBSegLock(t) \/ CompactBScan(t) \/ CompactBWrite(t)
    \/ CompactCLock(t) \/ CompactC(t)

Call(t) ==
    \/ \E k \in ConcKeys : CallGet(t, k)
    \/ \E kv \in ConcWrites : CallSet(t, kv[1], kv[2])
    \/ \E k \in ConcKeys : CallRemove(t, k)

NextConc == \E t \in Threads : Call(t) \/ Proceed(t)

SpecConc == Init /\ [][NextConc]_vars

\* no thread is inside an operation
Quiescent == \A t \in Threads : pc[t] = "idle"

\* callers that share the store, and its owner dropping and reopening it
\* between operations
NextShared ==
    \/ NextConc
    \/ Quiescent /\ Reopen
    \/ Quiescent /\ ReopenFails

SpecShared == Init /\ [][NextShared]_vars

\* the calls of the runs checked for progress: locking does not depend on
\* the value written
CallFair(t) ==
    \/ \E k \in ConcKeys : CallGet(t, k)
    \/ \E kv \in FairWrites : CallSet(t, kv[1], kv[2])
    \/ \E k \in ConcKeys : CallRemove(t, k)

NextFair == \E t \in Threads : CallFair(t) \/ Proceed(t)

\* fair lock scheduling: a thread that can proceed again and again does
SpecFair == Init /\ [][NextFair]_vars /\ \A t \in Threads : SF_vars(Proceed(t))

\* the key and the value thread t writes when every thread owns a key
OwnWrite(t) == IF t = 1 THEN <<"a", "ww">> ELSE <<"b", "ww">>

\* the steps of a thread inside KvStore::set and the compact() it starts
SetSteps(t) ==
    \/ SetLock(t) \/ SetSegLock(t) \/ SetWrite(t) \/ SetWriteCompact(t)
    \/ CompactALock(t) \/ CompactA(t)
    \/ CompactBLock(t) \/ CompactBSegLock(t) \/ CompactBScan(t) \/ CompactBWrite(t)
    \/ CompactCLock(t) \/ CompactC(t)

\* writers on distinct keys: every thread sets its own key, nothing else
NextWriters ==
    \E t \in Threads : CallSet(t, OwnWrite(t)[1], OwnWrite(t)[2]) \/ SetSteps(t)

SpecWriters == Init /\ [][NextWriters]_vars

\* lines 108-121 when File::create succeeds and a write_all returns an
\* error: compact() returns it, and <path>.compact stays with the n lines
\* written before
CompactBWriteFails(t) ==
    /\ pc[t] = "b_write"
    /\ \E n \in 0..(Len(local[t].cmds) - 1) :
          Install(PhaseBWrite(World, local[t].path, SubSeq(local[t].cmds, 1, n)))
    /\ last' = [last EXCEPT ![local[t].key] = Unknown]
    /\ Return(t)
    /\ UNCHANGED <<store, lockVars, lastOp, pure>>

\* writers on distinct keys on a disk whose writes can fail
NextFaulty ==
    \/ NextWriters
    \/ \E t \in Threads : CompactBWriteFails(t)

SpecFaulty == Init /\ [][NextFaulty]_vars

\* lines 108-111 when File::create returns an error: compact() returns it
\* and the directory is as it was
CompactBCreateFails(t) ==
    /\ pc[t] = "b_write"
    /\ last' = [last EXCEPT ![local[t].key] = Unknown]
    /\ Return(t)
    /\ UNCHANGED <<dataVars, store, lockVars, lastOp, pure>>

\* phase C when remove_file returns an error, lines 126-135: the segment
\* is popped and dropped, no file is touched: [w, res]
PhaseCUnlinkFails(w) ==
    [w |-> [w EXCEPT !.immutables = SubSeq(w.immutables, 1, Len(w.immutables) - 1)],
     res |-> Err("ProcessOsFile")]

CompactCUnlinkFails(t) ==
    /\ pc[t] = "c_held"
    /\ Install(PhaseCUnlinkFails(World).w)
    /\ lastOp' = "compact_err"
    /\ last' = [last EXCEPT ![local[t].key] = Unknown]
    /\ setWriter' = 0
    /\ Return(t)
    /\ UNCHANGED <<store, setReaders, setWaiting, segWriter, pure>>

\* writers on distinct keys on a disk whose creates, writes and unlinks
\* can fail
NextIoFaults ==
    \/ NextFaulty
    \/ \E t \in Threads : CompactBCreateFails(t)
    \/ \E t \in Threads : CompactCUnlinkFails(t)

SpecIoFaults == Init /\ [][NextIoFaults]_vars

\* ------------------------------------------- KvStore::open on a directory
\* the file name data_<digits>
DataName(digits) == DataWord \o <<"_">> \o digits

\* the entry names of the directories opened: data_0, data_1, data_9,
\* data_10, data_+2, data_1.compact and LOCK
OpenNames ==
    {DataName(<<"0">>), DataName(<<"1">>), DataName(<<"9">>), DataName(<<"1", "0">>),
     DataName(<<"+", "2">>), DataName(<<"1">>) \o CompactSuffix, <<"L", "O", "C", "K">>}

\* what their files hold
OpenContents == {<<>>, <<Encode(LogItem("set", "a", Some("ww")))>>}

\* the paths handed to KvStore::open
Dirs ==
    {MissingDir} \cup
    {Dir(e) : e \in UNION {[S -> OpenContents] : S \in SUBSET OpenNames}}

\* the call KvStore::open(path), `path` standing for what is at the path
OpenCall(dir) == [Local("open", "", "") EXCEPT !.path = dir]

\* before the first open: no store, and thread 1 about to call open
InitOpen ==
    /\ InitWorld([files |-> NoFiles, cfiles |-> NoFiles,
                  mutable |-> [path |-> 0, index |-> EmptyIndex, pos |-> 0],
                  immutables |-> <<>>, next_id |-> 0])
    /\ store = "closed"
    /\ setReaders = {}
    /\ setWriter = 0
    /\ setWaiting = {}
    /\ segWriter = [p \in 0..MaxId |-> 0]
    /\ pc = [t \in Threads |-> IF t = 1 THEN "o_call" ELSE "idle"]
    /\ \E dir \in Dirs :
          local = [t \in Threads |-> IF t = 1 THEN OpenCall(dir) ELSE Idle]
    /\ last = [k \in Keys |-> NoWrite]
    /\ lastOp = "none"
    /\ pure = TRUE

\* KvStore::open returns a store or an error, or panics
OpenDir(t) ==
    /\ pc[t] = "o_call"
    /\ \E o \in {KvOpen(local[t].path)} :
          IF IsOk(o)
          THEN /\ Install(o[2])
               /\ store' = "open"
               /\ lastOp' = "open"
          ELSE /\ store' = o[1]
               /\ lastOp' = "open_err"
               /\ UNCHANGED <<files, cfiles, mutable, immutables, next_id>>
    /\ Goto(t, "o_done")
    /\ UNCHANGED <<lockVars, local, last, pure>>

SpecOpen == InitOpen /\ [][OpenDir(1)]_vars

\* ------------------------------------------- one segment, as tests::crud
\* drives it: the mutable of a store nobody else uses
\* PtrLogFileInner::set
SegmentSet(k, v) ==
    LET r == SegSet(mutable, files[mutable.path], k, v)
    IN  /\ store = "open"
        /\ FileLen(r.file) <= MaxSegLen
        /\ mutable' = r.seg
        /\ files' = PutFile(files, mutable.path, r.file)
        /\ lastOp' = "seg_set"
        /\ UNCHANGED <<cfiles, store, immutables, next_id, lockVars, threadVars, last, pure>>

\* PtrLogFileInner::remove
SegmentRemove(k) ==
    LET r == SegRemove(mutable, files[mutable.path], k)
    IN  /\ store = "open"
        /\ FileLen(r.file) <= MaxSegLen
        /\ mutable' = r.seg
        /\ files' = PutFile(files, mutable.path, r.file)
        /\ lastOp' = IF IsOk(r.res) THEN "seg_rm" ELSE "seg_rm_err"
        /\ UNCHANGED <<cfiles, store, immutables, next_id, lockVars, threadVars, last, pure>>

\* drop of the segment, then PtrLogFileInner::new on its file
SegmentNew ==
    LET r == NewLogFile(files, mutable.path)
    IN  /\ store = "open"
        /\ IsOk(r)
        /\ mutable' = r[2]
        /\ lastOp' = "seg_new"
        /\ UNCHANGED <<files, cfiles, store, immutables, next_id, lockVars, threadVars,
                       last, pure>>

NextSegment ==
    \/ \E k \in Keys, v \in Values : SegmentSet(k, v)
    \/ \E k \in Keys : SegmentRemove(k)
    \/ SegmentNew

SpecSegment == Init /\ [][NextSegment]_vars

\* PtrLogFileInner::get
SegmentGet(k) ==
    /\ store = "open"
    /\ \E g \in {SegGet(mutable, files[mutable.path], k)} :
          /\ mutable' = g.seg
          /\ lastOp' = IF IsOk(g.res) THEN "seg_get" ELSE "seg_get_err"
    /\ UNCHANGED <<files, cfiles, store, immutables, next_id, lockVars, threadVars,
                   last, pure>>

\* PtrLogFileInner::scan
SegmentScan ==
    /\ store = "open"
    /\ \E order \in IterOrders(mutable.index) :
          \E s \in {SegScan(mutable, files[mutable.path], order)} :
              /\ mutable' = s.seg
              /\ lastOp' = IF IsOk(s.res) THEN "seg_scan" ELSE "seg_scan_err"
    /\ UNCHANGED <<files, cfiles, store, immutables, next_id, lockVars, threadVars,
                   last, pure>>

\* one segment under every operation it has
NextSegmentAll ==
    \/ \E k \in Keys, v \in Values : SegmentSet(k, v)
    \/ \E k \in Keys : SegmentRemove(k)
    \/ \E k \in Keys : SegmentGet(k)
    \/ SegmentScan
    \/ SegmentNew

SpecSegmentAll == Init /\ [][NextSegmentAll]_vars

\* ------------------------------------------- replay of files as found
\* the records of the files opened: set, rm, and the cmd get of no writer
ReplayRecords ==
    {Encode(LogItem("set", "a", Some(""))), Encode(LogItem("rm", "a", None)),
     Encode(LogItem("set", "b", Some("ww"))), Encode(LogItem("get", "a", None))}

\* the files of at most n records
ReplayFiles(n) == UNION {[1..m -> ReplayRecords] : m \in 0..n}

\* the call PtrLogFileInner::new(path)
NewCall(path) == [Local("new", "", "") EXCEPT !.path = path]

\* a directory holding data_0 and data_1, no store, and thread 1 about to
\* open one of the two as a segment
InitReplay ==
    /\ \E f0 \in ReplayFiles(MaxReplayLen - 1), f1 \in ReplayFiles(MaxReplayLen) :
          InitWorld([files |-> PutFile(PutFile(NoFiles, 0, f0), 1, f1), cfiles |-> NoFiles,
                     mutable |-> [path |-> 0, index |-> EmptyIndex, pos |-> 0],
                     immutables |-> <<>>, next_id |-> 0])
    /\ store = "closed"
    /\ setReaders = {}
    /\ setWriter = 0
    /\ setWaiting = {}
    /\ segWriter = [p \in 0..MaxId |-> 0]
    /\ pc = [t \in Threads |-> IF t = 1 THEN "n_call" ELSE "idle"]
    /\ \E p \in {0, 1} :
          local = [t \in Threads |-> IF t = 1 THEN NewCall(p) ELSE Idle]
    /\ last = [k \in Keys |-> NoWrite]
    /\ lastOp = "none"
    /\ pure = TRUE

\* PtrLogFileInner::new on the path: the result is kept in target
ReplayNew(t) ==
    /\ pc[t] = "n_call"
    /\ local' = [local EXCEPT ![t].target = NewLogFile(files, local[t].path)]
    /\ Goto(t, "k_call")
    /\ UNCHANGED <<dataVars, store, lockVars, last, lastOp, pure>>

\* KvStore::open on the directory
ReplayOpen(t) ==
    /\ pc[t] = "k_call"
    /\ \E o \in {Open(files, cfiles)} :
          IF IsOk(o)
          THEN /\ Install(o[2])
               /\ store' = "open"
               /\ lastOp' = "open"
          ELSE /\ store' = o[1]
               /\ lastOp' = "open_err"
               /\ UNCHANGED <<files, cfiles, mutable, immutables, next_id>>
    /\ Goto(t, "k_done")
    /\ UNCHANGED <<lockVars, local, last, pure>>

NextReplay == ReplayNew(1) \/ ReplayOpen(1)

SpecReplay == InitReplay /\ [][NextReplay]_vars

\* ------------------------------------------- the codec on one record
\* the characters of the keys and values encoded
JsonChars == {"a", "}", Quote, Backslash, Newline}
JsonStrings == UNION {[1..n -> JsonChars] : n \in 0..MaxStrLen}

\* the valid records: set with a value, rm without
ValidRecords ==
    {LogItem(SetWord, k, Some(v)) : k \in JsonStrings, v \in JsonStrings}
    \cup {LogItem(RmWord, k, None) : k \in JsonStrings}

\* the call LogEncoder::encode(item)
EncodeCall(item) == [Local("encode", "", "") EXCEPT !.path = item]

\* thread 1 about to encode a record
InitCodec ==
    /\ InitWorld(Open(NoFiles, NoFiles)[2])
    /\ store = "open"
    /\ setReaders = {}
    /\ setWriter = 0
    /\ setWaiting = {}
    /\ segWriter = [p \in 0..MaxId |-> 0]
    /\ pc = [t \in Threads |-> IF t = 1 THEN "e_call" ELSE "idle"]
    /\ \E item \in ValidRecords :
          local = [t \in Threads |-> IF t = 1 THEN EncodeCall(item) ELSE Idle]
    /\ last = [k \in Keys |-> NoWrite]
    /\ lastOp = "none"
    /\ pure = TRUE

\* LogEncoder::encode: the line is kept in cmds
EncodeStep(t) ==
    /\ pc[t] = "e_call"
    /\ local' = [local EXCEPT ![t].cmds = JsonEncode(local[t].path)]
    /\ Goto(t, "d_call")
    /\ UNCHANGED <<dataVars, lockVars, last, lastOp, pure>>

\* LogEncoder::decode of that line: the result is kept in target
DecodeStep(t) ==
    /\ pc[t] = "d_call"
    /\ local' = [local EXCEPT ![t].target = JsonDecode(local[t].cmds)]
    /\ Goto(t, "d_done")
    /\ UNCHANGED <<dataVars, lockVars, last, lastOp, pure>>

NextCodec == EncodeStep(1) \/ DecodeStep(1)

SpecCodec == InitCodec /\ [][NextCodec]_vars

\* ---------------------------------------------------------------- claims
\* index of the newest immutable that contains k (0 if none)
NewestWith(ims, k) ==
    LET hits == {i \in DOMAIN ims : ContainsKey(ims[i], k)}
    IN  IF hits = {} THEN 0 ELSE CHOOSE i \in hits : \A h \in hits : h <= i

\* C1: whenever the last write of k was set(k, v), accepted and followed by
\* no remove(k), KvStore::get(k) answers Some(v).
C1_LatestWinsRead ==
    \A k \in Keys :
        (store = "open" /\ last[k][1] = "set")
            => GetAnswer(World, k) = Ok(Some(last[k][2]))

\* C2: from a successful remove(k) until the next set(k, _), KvStore::get(k)
\* answers None.
C2_TombstoneRead ==
    \A k \in Keys :
        (store = "open" /\ last[k] = WroteRm) => GetAnswer(World, k) = Ok(None)

\* C4: when the mutable does not contain k, KvStore::get(k) is answered by
\* the newest immutable that contains k.
C4_NewestFirst ==
    \A k \in Keys :
        LET i == NewestWith(immutables, k)
        IN  (store = "open" /\ ~ContainsKey(mutable, k) /\ i > 0)
                => GetAnswer(World, k) = SegGet(immutables[i], files[immutables[i].path], k).res

\* set(k, v) followed by get(k), applied to world w; the set's compaction
\* is left out
SetThenGet(w, k, v) == GetAnswer(KvSetAppend(w, k, v).w, k)

\* C3: dropping the store and opening the directory again changes no get
\* answer, and a set followed by a get behaves after the reopen as it would
\* have without it.
C3_RecoveryEquivalence ==
    [][lastOp' = "reopen" =>
          /\ \A k \in Keys : GetAnswer(World, k)' = GetAnswer(World, k)
          /\ \A kv \in Writes :
                SetThenGet(World, kv[1], kv[2])' = SetThenGet(World, kv[1], kv[2])]_vars

\* the compactions a set(k, v) can start in this state: the world after
\* the append and the world compact() leaves
Compactions(k, v) ==
    LET a == KvSetAppend(World, k, v)
    IN  IF store = "open" /\ NeedsCompact(a.len) /\ next_id < MaxId
        THEN {[before |-> a.w, after |-> Compact(a.w, order)] :
                 order \in IterOrders(a.w.mutable.index)}
        ELSE {}

\* the number of set records of key k in file f
SetRecords(f, k) == Cardinality({i \in DOMAIN f : f[i][1] = "set" /\ f[i][2] = k})

C6_SizeReduction ==
    [][\A kv \in Writes : \A c \in Compactions(kv[1], kv[2]) :
          (World' = c.after.w /\ lastOp' \in Compacted) =>
              LET old == c.before.mutable
                  oldFile == c.before.files[old.path]
                  newFile == files'[old.path]
              IN  /\ (\E k \in Keys : SetRecords(oldFile, k) >= 2)
                         => FileLen(newFile) < FileLen(oldFile)
                  /\ \A k \in DOMAIN old.index :
                         Cardinality({i \in DOMAIN newFile :
                             ~IsPartial(newFile[i]) /\ newFile[i][2] = k}) = 1]_vars

Paths(ims) == [i \in DOMAIN ims |-> ims[i].path]

\* C7: a successful compact() started with mutable data_m, immutables I and
\* next_id = n ends with an empty mutable data_n, immutables I followed by
\* data_m, and next_id = n + 1.
C7_CompactShape ==
    [][lastOp' \in Compacted =>
          /\ mutable'.path = next_id
          /\ files'[mutable'.path] = <<>>
          /\ mutable'.index = EmptyIndex
          /\ Paths(immutables') = Append(Paths(immutables), mutable.path)
          /\ Len(immutables') = Len(immutables) + 1
          /\ next_id' = next_id + 1]_vars

\* the second rotation has happened: two immutables and a third identifier
C7_Witness == lastOp \in Compacted /\ Len(immutables) = 2 /\ next_id = 3

\* C8 (identifier invariant): in every reachable state of the segment set,
\* with callers running concurrently, the identifiers of the mutable and the
\* immutables are distinct, the immutable list is strictly ascending, every
\* immutable identifier is below the mutable's, and next_id is above all.
C8_IdentifierInvariant ==
    store = "open" =>
        /\ \A i, j \in DOMAIN immutables : i < j => immutables[i].path < immutables[j].path
        /\ \A i \in DOMAIN immutables : immutables[i].path < mutable.path
        /\ mutable.path < next_id
        /\ Cardinality({immutables[i].path : i \in DOMAIN immutables} \cup {mutable.path})
               = Len(immutables) + 1

\* two immutables exist while one thread is between the phases of compact()
\* and the other is inside an operation
C8_Witness ==
    /\ Len(immutables) = 2
    /\ \E t, u \in Threads :
          /\ t # u
          /\ pc[t] \in {"b_lock", "b_seg", "b_scan", "b_write", "c_lock", "c_held"}
          /\ pc[u] # "idle"

\* a thread stopped at a lock that it cannot take in this state
Blocked(t) ==
    \/ pc[t] \in {"g_lock", "s_lock", "r_lock", "b_lock"} /\ ~ReadLockable
    \/ pc[t] \in {"a_lock", "c_lock"} /\ ~WriteLockable(t)
    \/ pc[t] = "g_seg" /\ segWriter[TargetPath(local[t].target)] # 0
    \/ pc[t] \in {"s_seg", "r_seg"} /\ segWriter[mutable.path] # 0
    \/ pc[t] = "b_seg" /\ segWriter[LastImmutable(World).path] # 0
    \/ pc[t] = "g_find"
       /\ \E p \in Visited(FindTarget(mutable, immutables, local[t].key)) : segWriter[p] # 0

Running == {t \in Threads : pc[t] # "idle"}

\* C9 (deadlock freedom): under fair lock scheduling, and with no I/O
\* failure, the threads inside get, set, remove and compact are never all
\* blocked on the set lock or a segment lock, and every started operation
\* eventually returns.
C9_DeadlockFreedom ==
    /\ [](Running # {} => \E t \in Running : ~Blocked(t))
    /\ \A t \in Threads : (pc[t] # "idle") ~> (pc[t] = "idle")

\* a compacting thread waits for the set lock that a reader holds
C9_Witness ==
    \E t, u \in Threads :
        /\ t # u
        /\ pc[t] \in {"a_lock", "c_lock"}
        /\ Blocked(t)
        /\ u \in setReaders

\* C10 (per-key linearizability): once the concurrent set and remove calls
\* on a key have all returned, compactions included, get(k) answers with the
\* write that took the mutable's exclusive lock last: Some(v) after a
\* set(k, v), None after a remove(k).
C10_Linearizable ==
    (store = "open" /\ Quiescent) =>
        \A k \in Keys :
            /\ \A v \in Values : last[k] = WroteSet(v) => GetAnswer(World, k) = Ok(Some(v))
            /\ last[k] = WroteRm => GetAnswer(World, k) = Ok(None)

\* C11: once set(k1, v1) and set(k2, v2), issued by two threads on distinct
\* keys, have both returned Ok (compactions included), get(k1) answers
\* Some(v1) and get(k2) answers Some(v2).
C11_NoLostWrites ==
    Quiescent =>
        \A t \in Threads :
            last[OwnWrite(t)[1]] = WroteSet(OwnWrite(t)[2])
                => GetAnswer(World, OwnWrite(t)[1]) = Ok(Some(OwnWrite(t)[2]))


\* the segments of the store, the mutable first
Segments == <<mutable>> \o immutables

\* C12: PtrLogFileInner::remove(k) appends an rm record and turns index[k]
\* into Removed only when index[k] is Exist; otherwise it returns
\* RemoveNotExistKey and leaves file and index as they were, so a second
\* remove(k) right after a successful one fails.
C12_GuardedRemove ==
    \A i \in DOMAIN Segments : \A k \in Keys :
        LET seg == Segments[i]
            f == files[seg.path]
            r == SegRemove(seg, f, k)
            again == SegRemove(r.seg, r.file, k)
        IN  IF ContainsKey(seg, k) /\ seg.index[k].tag = "Exist"
            THEN /\ r.res = Ok(None)
                 /\ r.file = Append(f, Encode(LogItem("rm", k, None)))
                 /\ DOMAIN r.seg.index = DOMAIN seg.index
                 /\ r.seg.index[k].tag = "Removed"
                 /\ \A x \in DOMAIN seg.index \ {k} : r.seg.index[x] = seg.index[x]
                 /\ again = [seg |-> r.seg, file |-> r.file, res |-> Err("RemoveNotExistKey")]
            ELSE r = [seg |-> seg, file |-> f, res |-> Err("RemoveNotExistKey")]

\* a remove has succeeded on the mutable, whose file ends with the rm record,
\* while the other key is still Exist there
C12_Witness ==
    \E k \in Keys, x \in Keys :
        LET f == files[mutable.path]
        IN  /\ last[k] = WroteRm
            /\ ContainsKey(mutable, k) /\ mutable.index[k].tag = "Removed"
            /\ f # <<>> /\ f[Len(f)] = Encode(LogItem("rm", k, None))
            /\ ContainsKey(mutable, x) /\ mutable.index[x].tag = "Exist"

\* the mutable holds no live entry of k while an immutable contains k
OnlyInImmutables(k) ==
    /\ ~(ContainsKey(mutable, k) /\ mutable.index[k].tag = "Exist")
    /\ \E i \in DOMAIN immutables : ContainsKey(immutables[i], k)

\* C13: KvStore::remove(k) of a key that an immutable contains and that has
\* no Exist entry in the mutable returns RemoveNotExistKey, appends nothing
\* to any file, and leaves the answer of get(k) as it was.
C13_RemoveMutableOnly ==
    \A k \in Keys :
        (store = "open" /\ OnlyInImmutables(k)) =>
            LET r == KvRemove(World, k)
            IN  /\ r.res = Err("RemoveNotExistKey")
                /\ r.w.files = files
                /\ r.w.mutable = mutable /\ r.w.immutables = immutables
                /\ GetAnswer(r.w, k) = GetAnswer(World, k)

\* a key that get still answers from an immutable, absent from the mutable,
\* whose remove was refused
C13_Witness ==
    \E k \in Keys :
        /\ store = "open" /\ OnlyInImmutables(k)
        /\ ~ContainsKey(mutable, k)
        /\ GetAnswer(World, k) = Ok(Some("ww"))
        /\ last[k] = Unknown
        /\ lastOp = "other"

\* the position in Segments of the first segment whose index contains k
\* (0 if none): the mutable, then the immutables as immutables.iter()
\* yields them
FirstContaining(k) ==
    LET hits == {i \in DOMAIN Segments : ContainsKey(Segments[i], k)}
    IN  IF hits = {} THEN 0 ELSE CHOOSE i \in hits : \A h \in hits : i <= h

\* C14: KvStore::get(k) is answered by the first segment in search order
\* whose index contains k, as Exist or as Removed: a Removed entry there
\* gives None whatever the segments searched later hold, segments without k
\* are skipped, and when no segment contains k the answer is Ok(None).
C14_FirstContaining ==
    \A k \in Keys :
        store = "open" =>
            LET i == FirstContaining(k)
            IN  IF i = 0 THEN GetAnswer(World, k) = Ok(None)
                ELSE /\ GetAnswer(World, k)
                          = SegGet(Segments[i], files[Segments[i].path], k).res
                     /\ Segments[i].index[k].tag = "Removed"
                          => GetAnswer(World, k) = Ok(None)

\* the mutable holds k as Removed over an immutable that holds it as Exist,
\* and get skips the mutable for a key that only an immutable contains
C14_Witness ==
    \E k \in Keys, x \in Keys :
        /\ store = "open"
        /\ ContainsKey(mutable, k) /\ mutable.index[k].tag = "Removed"
        /\ \E i \in DOMAIN immutables :
              ContainsKey(immutables[i], k) /\ immutables[i].index[k].tag = "Exist"
        /\ GetAnswer(World, k) = Ok(None)
        /\ ~ContainsKey(mutable, x)
        /\ GetAnswer(World, x) = Ok(Some(""))

\* this step left the set of segments as it was: no rotation
SegmentSetSame ==
    /\ next_id' = next_id
    /\ mutable'.path = mutable.path
    /\ Paths(immutables') = Paths(immutables)

\* this step appended one set record to the mutable's file and did not
\* rewrite it afterwards
AppendedSet ==
    /\ mutable.path \in DOMAIN files'
    /\ \E kv \in Writes :
          files'[mutable.path]
              = Append(files[mutable.path], Encode(LogItem("set", kv[1], Some(kv[2]))))

\* this step appended nothing, or one rm record to the mutable's file: a
\* get or a remove
ReadOrRemoved ==
    \/ files' = files
    \/ /\ mutable.path \in DOMAIN files'
       /\ \E k \in Keys :
             files'[mutable.path]
                 = Append(files[mutable.path], Encode(LogItem("rm", k, None)))

\* C15: KvStore::set runs compact() exactly when the mutable's length after
\* its append exceeds the threshold; at or below the threshold nothing is
\* rotated; get and remove never rotate.
C15_CompactionTrigger ==
    [][/\ ~SegmentSetSame =>
             \E kv \in Writes : \E c \in Compactions(kv[1], kv[2]) :
                 /\ World' = c.after.w
                 /\ FileLen(c.before.files[mutable.path]) > Threshold
       /\ AppendedSet => (SegmentSetSame <=> FileLen(files'[mutable.path]) <= Threshold)
       /\ ReadOrRemoved => SegmentSetSame]_vars

\* a set has left the mutable at exactly the threshold without rotating it,
\* after an earlier set over the threshold rotated
C15_Witness ==
    LET f == files[mutable.path]
    IN  /\ store = "open"
        /\ FileLen(f) = Threshold
        /\ f[Len(f)][1] = "set"
        /\ lastOp = "other"
        /\ Len(immutables) = 1
        /\ next_id = 2

\* the threads whose compact() has written its .compact file and has not yet
\* finished phase C
Swapping == {t \in Threads : pc[t] \in {"c_lock", "c_held"}}

\* C16: whenever no compact() call is between the write of its .compact
\* file and the end of its phase C, however the calls interleave and
\* however they returned, the directory holds no data_<N>.compact file.
C16_TransientHygiene == (Swapping = {}) => (DOMAIN cfiles = {})

\* the directory thread 1 handed to KvStore::open, once open is over
Opened == pc[1] = "o_done"
OpenedDir == local[1].path

\* the digits of data_<decimal digits>, <<>> for any other name
DigitsOf(name) ==
    IF Len(name) > 5
       /\ SubSeq(name, 1, 5) = DataWord \o <<"_">>
       /\ \A i \in 6..Len(name) : DigitOf(name[i]) >= 0
    THEN SubSeq(name, 6, Len(name))
    ELSE <<>>

\* the number a sequence of decimal digits denotes
RECURSIVE Decimal(_)
Decimal(digits) ==
    IF digits = <<>> THEN 0
    ELSE 10 * Decimal(SubSeq(digits, 1, Len(digits) - 1)) + DigitOf(digits[Len(digits)])

\* every entry is named data_<decimal digits>
WellNamed(dir) == \A n \in DOMAIN dir.entries : DigitsOf(n) # <<>>

\* C17: KvStore::open of an empty directory creates data_0 as the mutable,
\* with no immutables and next_id = 1; of a directory of data_<N> files it
\* makes the numerically largest N the mutable, the others the immutables
\* in ascending numeric N, and next_id = max N + 1.
C17_OpenSegmentSet ==
    (Opened /\ OpenedDir.exists /\ WellNamed(OpenedDir)) =>
        LET N == {Decimal(DigitsOf(n)) : n \in DOMAIN OpenedDir.entries}
        IN  /\ store = "open"
            /\ IF N = {}
               THEN /\ files = (0 :> <<>>)
                    /\ mutable.path = 0 /\ mutable.index = EmptyIndex
                    /\ immutables = <<>>
                    /\ next_id = 1
               ELSE /\ \A x \in N : x <= mutable.path
                    /\ mutable.path \in N
                    /\ {immutables[i].path : i \in DOMAIN immutables} = N \ {mutable.path}
                    /\ Len(immutables) = Cardinality(N) - 1
                    /\ \A i, j \in DOMAIN immutables :
                          i < j => immutables[i].path < immutables[j].path
                    /\ next_id = mutable.path + 1
                    /\ \A n \in DOMAIN OpenedDir.entries :
                          files[Decimal(DigitsOf(n))] = OpenedDir.entries[n]

\* open has built a store over data_0, data_1, data_9 and data_10: data_10
\* is the mutable and data_9 the newest immutable
C17_Witness ==
    /\ Opened /\ store = "open"
    /\ DOMAIN OpenedDir.entries
         = {DataName(<<"0">>), DataName(<<"1">>), DataName(<<"9">>), DataName(<<"1", "0">>)}
    /\ mutable.path = 10
    /\ Paths(immutables) = <<0, 1, 9>>
    /\ next_id = 11
    /\ OpenedDir.entries[DataName(<<"9">>)] # <<>>

\* C18: KvStore::open of a path that does not exist returns an Err to its
\* caller and creates no file.
C18_OpenMissingDir ==
    (Opened /\ ~OpenedDir.exists) => (store = "Err" /\ files = NoFiles)

\* C19: KvStore::open returns no store whenever the directory holds an
\* entry whose name is not data_<decimal digits>.
C19_StrictNames ==
    (Opened /\ OpenedDir.exists /\ ~WellNamed(OpenedDir)) => store # "open"

\* C20: after any sequence of set and remove on a segment,
\* PtrLogFileInner::new on its file builds an index with the keys of the
\* live index and the same Exist/Removed variant for each, every get
\* answers as the live segment does, and a removed key is contained as
\* Removed.
C20_ReplayEquivalence ==
    LET f == files[mutable.path]
        r == NewLogFile(files, mutable.path)
    IN  /\ IsOk(r)
        /\ DOMAIN r[2].index = DOMAIN mutable.index
        /\ \A k \in DOMAIN mutable.index : r[2].index[k].tag = mutable.index[k].tag
        /\ \A k \in Keys : SegGet(r[2], f, k).res = SegGet(mutable, f, k).res
        /\ \A k \in DOMAIN mutable.index :
              mutable.index[k].tag = "Removed"
                  => ContainsKey(r[2], k) /\ SegGet(r[2], f, k).res = Ok(None)

\* C21: for every record with cmd set and a value, or cmd rm and no value,
\* and any key, LogEncoder::decode(LogEncoder::encode(r)) succeeds and
\* equals r.
C21_CodecRoundTrip ==
    pc[1] = "d_done" => local[1].target = Ok(local[1].path)

\* a record whose key holds a quote and whose value holds a newline has
\* been encoded to one line without a raw newline, and decoded
C21_Witness ==
    /\ pc[1] = "d_done"
    /\ local[1].path.cmd = SetWord
    /\ \E i \in DOMAIN local[1].path.key : local[1].path.key[i] = Quote
    /\ local[1].path.value # None
    /\ \E i \in DOMAIN local[1].path.value[1] : local[1].path.value[1][i] = Newline
    /\ \A i \in DOMAIN local[1].cmds : local[1].cmds[i] # Newline
    /\ IsOk(local[1].target)

\* C22: in every state of a segment, opened on an empty or a non-empty
\* file and driven by set, remove, get and scan, every indexed offset is
\* the start of a record of the file whose key is the indexed key and
\* whose cmd is set for an Exist entry and rm for a Removed entry.
C22_IndexValidity ==
    \A k \in DOMAIN mutable.index :
        LET line == ReadLine(files[mutable.path], mutable.index[k].off)
        IN  /\ line # EOF
            /\ ~IsPartial(line)
            /\ line[2] = k
            /\ line[1] = (IF mutable.index[k].tag = "Exist" THEN "set" ELSE "rm")

\* C23: every set and every successful remove of a segment stores in the
\* index the length the file had immediately before the append, wherever
\* the cursor of the handle stands (a first append after opening a
\* non-empty file, an append after a get or a scan); hence a get that
\* directly follows set(k, v) answers Some(v).
C23_AppendOffset ==
    store = "open" =>
        LET f == files[mutable.path]
        IN  /\ \A k \in Keys, v \in Values :
                  LET s == SegSet(mutable, f, k, v)
                  IN  /\ s.seg.index[k] = Exist(FileLen(f))
                      /\ SegGet(s.seg, s.file, k).res = Ok(Some(v))
            /\ \A k \in Keys :
                  LET r == SegRemove(mutable, f, k)
                  IN  IsOk(r.res) => r.seg.index[k] = Removed(FileLen(f))

\* C24: a segment get of a key whose entry is Exist never returns a value
\* read from a record whose key is another key or whose cmd is not set.
C24_ReadProtocol ==
    store = "open" =>
        \A k \in DOMAIN mutable.index :
            LET f == files[mutable.path]
                g == SegGet(mutable, f, k)
                line == ReadLine(f, mutable.index[k].off)
            IN  (mutable.index[k].tag = "Exist" /\ IsOk(g.res) /\ g.res[2] # None)
                    => (line[2] = k /\ line[1] = "set")

\* C25: within one segment, a successful set or remove that overwrites
\* the index entry of a key stores an offset strictly greater than the
\* offset it replaces, after a reopen and between gets as well.
C25_OffsetMonotone ==
    store = "open" =>
        \A k \in DOMAIN mutable.index :
            LET f == files[mutable.path]
                r == SegRemove(mutable, f, k)
            IN  /\ \A v \in Values :
                      SegSet(mutable, f, k, v).seg.index[k].off > mutable.index[k].off
                /\ IsOk(r.res) => r.seg.index[k].off > mutable.index[k].off

\* the program points at which a thread requests the lock of the segment set
SetLockRequests == {"g_lock", "s_lock", "r_lock", "a_lock", "b_lock", "c_lock"}

\* the program points at which a thread requests that lock exclusively
SetLockWriteRequests == {"a_lock", "c_lock"}

HoldsSegment(t) == \E p \in DOMAIN segWriter : segWriter[p] = t

\* C26: no thread requests the lock of the segment set while it holds a
\* segment lock; no thread requests that lock exclusively while it holds
\* it shared; and a set that goes on to compact() holds neither the lock
\* of the mutable nor the shared lock of the set when phase A requests
\* the exclusive lock.
C26_LockOrder ==
    \A t \in Threads :
        /\ pc[t] \in SetLockRequests => ~HoldsSegment(t)
        /\ pc[t] \in SetLockWriteRequests => t \notin setReaders
        /\ pc[t] = "a_lock" => (~HoldsSegment(t) /\ t \notin setReaders /\ setWriter # t)

C26_Witness ==
    \E t, u \in Threads :
        /\ pc[t] = "a_lock" /\ local[t].op = "set"
        /\ u # t /\ u \in setReaders /\ HoldsSegment(u)
        /\ ~HoldsSegment(t) /\ t \notin setReaders

\* the program points of compact() after phase B has chosen its segment
AfterChoice == {"b_scan", "b_write", "c_lock", "c_held"}

\* C27: in every execution, interleaved compact() calls included, the
\* segment a compaction scans in phase B, immutables.last(), is the
\* segment that same compaction demoted in phase A.
C27_OwnRotation ==
    \A t \in Threads : pc[t] \in AfterChoice => local[t].path = local[t].rotated

\* C28: the segment phase C pops is the segment phase B of the same
\* compaction scanned; the path it unlinks and renames over is the path
\* phase B recorded; and the file it renames into place holds exactly the
\* lines that phase B scanned.
C28_SwapScanned ==
    \A t \in Threads :
        pc[t] = "c_held" =>
            /\ LastImmutable(World).path = local[t].path
            /\ local[t].path \in DOMAIN cfiles
            /\ cfiles[local[t].path] = local[t].cmds

\* the step in which thread t appends the record of its set or remove
Appends(t) == pc[t] \in {"s_write", "r_write"} /\ pc'[t] # pc[t]

\* the step in which thread t runs phase C
Swaps(t) == pc[t] = "c_held" /\ pc'[t] # pc[t]

\* C29: set and remove append only to the segment that is the mutable at
\* the time, which is the segment the thread locked; the file of a segment
\* in immutables changes in no step but a phase C, so no record is added
\* to it between the scan of phase B and the swap of phase C.
C29_ImmutablesClosed ==
    [][ /\ \A t \in Threads :
              Appends(t) =>
                  /\ segWriter[mutable.path] = t
                  /\ \A p \in DOMAIN files :
                        p # mutable.path => (p \in DOMAIN files' /\ files'[p] = files[p])
        /\ (\A t \in Threads : ~Swaps(t)) =>
              \A i \in DOMAIN immutables :
                  /\ immutables[i].path \in DOMAIN files'
                  /\ files'[immutables[i].path] = files[immutables[i].path]
      ]_vars

C29_Witness ==
    \E t \in Threads :
        /\ pc[t] = "c_lock"
        /\ Len(immutables) = 1 /\ immutables[1].path = local[t].path
        /\ cfiles[local[t].path] = local[t].cmds
        /\ FileLen(files[mutable.path]) > 0

\* the segment objects of the store, each with an open handle on its path
OpenSegments == [i \in 0..Len(immutables) |-> IF i = 0 THEN mutable ELSE immutables[i]]

\* C30: whenever phase C unlinks a path or renames the .compact file over
\* it, it holds the exclusive lock of the set, the segment it pops is the
\* only segment object of the store opened on that path, and no thread
\* holds a guard on a segment of that path.
C30_NoOpenHandle ==
    \A t \in Threads :
        pc[t] = "c_held" =>
            LET n == Len(immutables)
                old_immut_path == immutables[n].path
            IN  /\ setWriter = t /\ setReaders = {}
                /\ \A i \in 0..(n - 1) : OpenSegments[i].path # old_immut_path
                /\ segWriter[old_immut_path] = 0

C30_Witness ==
    \E t, u \in Threads :
        /\ pc[t] = "c_held" /\ Len(immutables) = 2
        /\ pc[u] = "g_lock" /\ local[u].key \in DOMAIN LastImmutable(World).index

\* C31: for every key, KvStore::get answers after a successful compact()
\* what it answered immediately before it, also for a key that has entries
\* both in the rotated mutable and in an older immutable.
C31_CompactTransparent ==
    [][\A kv \in Writes : \A c \in Compactions(kv[1], kv[2]) :
          (World' = c.after.w /\ lastOp' \in Compacted) =>
              \A k \in Keys : GetAnswer(c.after.w, k) = GetAnswer(c.before, k)]_vars

\* the step in which thread t runs a phase of compact()
Compacts(t) == pc[t] \in {"a_held", "b_scan", "b_write", "c_held"} /\ pc'[t] # pc[t]

\* the path of the segment the compact() of thread t rotates out
RotatedOut(t) == IF pc[t] = "a_held" THEN mutable.path ELSE local[t].rotated

\* C32: a compact() call changes the file and the index of no segment but
\* the one it rotated out: every other segment of the set is still in the
\* set with the same index and the same file contents, so no record of an
\* older segment is dropped - in every execution, interleaved compact()
\* calls included.
C32_CompactFrame ==
    [][\A t \in Threads :
          Compacts(t) =>
              \A i \in DOMAIN OpenSegments :
                  LET s == OpenSegments[i]
                  IN  s.path # RotatedOut(t) =>
                          /\ \E j \in DOMAIN OpenSegments' :
                                /\ OpenSegments'[j].path = s.path
                                /\ OpenSegments'[j].index = s.index
                          /\ s.path \in DOMAIN files'
                          /\ files'[s.path] = files[s.path]]_vars

\* C33: after a successful compact() the index of the rewritten segment has
\* the key set it had before and the same Exist/Removed variant for every
\* key; a key that was Removed is still contained and answered None.
C33_TombstonesKept ==
    [][\A kv \in Writes : \A c \in Compactions(kv[1], kv[2]) :
          (World' = c.after.w /\ lastOp' \in Compacted) =>
              LET old == c.before.mutable
                  new == LastImmutable(World')
              IN  /\ DOMAIN new.index = DOMAIN old.index
                  /\ \A k \in DOMAIN old.index :
                        /\ new.index[k].tag = old.index[k].tag
                        /\ old.index[k].tag = "Removed" =>
                              /\ ContainsKey(new, k)
                              /\ SegGet(new, files'[new.path], k).res = Ok(None)]_vars


\* the segments whose phase B failed while writing <path>.compact: the file
\* is there and no compact() is about to rename it
FailedB == {p \in DOMAIN cfiles : \A t \in Threads : ~(pc[t] \in {"c_lock", "c_held"} /\ local[t].path = p)}

\* C34: a compact() that fails in phase B leaves the old mutable demoted
\* and its file as it was, and a later compact() call, started while that
\* segment is the last immutable, does not rotate again: the segment its
\* phase B will read as immutables.last() is still that segment.
C34_RetrySameSegment ==
    [][\A t \in Threads :
          /\ (pc[t] = "b_write" /\ pc'[t] = "idle") =>
                /\ immutables' = immutables
                /\ files' = files
                /\ \E i \in DOMAIN immutables : immutables[i].path = local[t].path
          /\ (pc[t] = "a_held" /\ pc'[t] = "b_lock"
                /\ immutables # <<>> /\ LastImmutable(World).path \in FailedB) =>
                LastImmutable(World').path = LastImmutable(World).path]_vars

\* the step in which the compact() of thread t fails after its scan and
\* before its rename
FailsEarly(t) == CompactBCreateFails(t) \/ CompactBWriteFails(t) \/ CompactCUnlinkFails(t)

\* C35: when a step of compact() between the scan of phase B and the
\* rename fails (the creation or a write of the .compact file, or the
\* unlink), the segment file at the path P that phase B recorded is still
\* there with the contents it had.
C35_OriginalUntouched ==
    [][\A t \in Threads :
          (FailsEarly(t) /\ local[t].path \in DOMAIN files) =>
              /\ local[t].path \in DOMAIN files'
              /\ files'[local[t].path] = files[local[t].path]]_vars

\* a compact() has failed while writing the .compact file of a segment of
\* two records: the segment is in immutables, its file is whole, and the
\* .compact file holds fewer lines than the index has keys
C35_Witness ==
    \E p \in FailedB :
        /\ p \in DOMAIN files /\ Len(files[p]) = 2
        /\ \E i \in DOMAIN immutables :
              /\ immutables[i].path = p
              /\ Len(cfiles[p]) < Cardinality(DOMAIN immutables[i].index)

\* the step in which the compact() of thread t returns an error
ReturnsErr(t) ==
    \/ pc[t] \in {"b_scan", "b_write"} /\ pc'[t] = "idle"
    \/ pc[t] = "c_held" /\ pc'[t] = "idle" /\ lastOp' = "compact_err"

\* C36: when compact() returns an error, at whichever step, every segment
\* that was in the set after phase A is still in the set, and every key
\* is answered by get as it was before the failing step.
C36_FailureKeepsSet ==
    [][\A t \in Threads :
          ReturnsErr(t) =>
              /\ \A i \in DOMAIN OpenSegments :
                    \E j \in DOMAIN OpenSegments' :
                        OpenSegments'[j].path = OpenSegments[i].path
              /\ \A k \in Keys : GetAnswer(World', k) = GetAnswer(World, k)]_vars

\* C37: in every interleaving of get, set, remove and the compact() calls
\* that set starts, immutables is not empty when a phase B is about to
\* read immutables.last() and when a phase C is about to call
\* immutables.pop(): neither unwrap panics.
C37_UnwrapsLegal ==
    \A t \in Threads : pc[t] \in {"b_seg", "c_held"} => Len(immutables) >= 1

\* a phase C is about to pop the only immutable while the other thread
\* waits to start a compaction of its own
C37_Witness ==
    \E t, u \in Threads :
        /\ pc[t] = "c_held" /\ Len(immutables) = 1
        /\ pc[u] = "a_lock"

\* the file holds a record whose cmd is neither set nor rm
HasUnknownCmd(f) == \E i \in DOMAIN f : f[i][1] \notin {"set", "rm"}

\* C38: PtrLogFileInner::new on a file that holds a record whose cmd is
\* neither set nor rm returns UnknownCmd, whatever records come before or
\* after it, and KvStore::open on a directory with such a file returns an
\* error.
C38_UnknownCmdRejected ==
    /\ (pc[1] \in {"k_call", "k_done"} /\ HasUnknownCmd(files[local[1].path]))
           => local[1].target = Err("UnknownCmd")
    /\ (pc[1] = "k_done" /\ \E p \in DOMAIN files : HasUnknownCmd(files[p]))
           => store = "Err"

\* both opens have failed on a file whose unknown record stands between a
\* set record and an rm record
C38_Witness ==
    /\ pc[1] = "k_done" /\ store = "Err"
    /\ local[1].target = Err("UnknownCmd")
    /\ LET f == files[local[1].path]
       IN  Len(f) = 3 /\ f[1][1] = "set" /\ f[2][1] = "get" /\ f[3][1] = "rm"
============================================================================
